---- MODULE Spec2Model ----
\* A model of the FRED series retrieval library: the validator (validator.py),
\* the processor (processor.py) and the get_series pipeline of FredAPI (api.py).
\*
\* Python values are tagged records: None, a str (a sequence of one-character
\* strings), a non-str non-list value (an int), and a list of values.
\* Timestamps are proleptic Gregorian ordinals (date.toordinal()).
EXTENDS Integers, Sequences, FiniteSets, TLC

VARIABLES
    call,       \* the validator / processor function called directly, with its arguments
    outcome,    \* what that call raised or returned
    pc,         \* stage of the get_series request
    req,        \* the arguments of the get_series request
    csv_data,   \* the payload fetch_fred_data returned
    df,         \* the parsed series
    result,     \* the series get_series returned
    error,      \* the error get_series raised
    stages,     \* the stages the request has run, in order
    fetched,    \* the calls made to fetch_fred_data, in order
    filtered,   \* the calls made to filter_by_dates / filter_by_date_range, in order
    warned      \* the gap-filling warnings emitted

vars == <<call, outcome, pc, req, csv_data, df, result, error, stages, fetched, filtered, warned>>

\* ---------------------------------------------------------------- bounds

MaxDates == 3
MaxRows == 2

\* ---------------------------------------------------------------- Python values

None == [t |-> "None", v |-> <<>>]
PyInt == [t |-> "int", v |-> <<>>]
Str(s) == [t |-> "str", v |-> s]
List(l) == [t |-> "list", v |-> l]

\* Python truthiness (`if x:`) of None, a str and a list
Truthy(x) == x.t = "int" \/ (x.t \in {"str", "list"} /\ Len(x.v) > 0)

\* What a call does: kind is "ok" or the exception class raised; msg, param and
\* index are the parts of the exception's message (param[index] is the label
\* dates[i]), cited the dates it lists; ret is the value returned and warn the
\* warnings emitted on the way.
Ok == [kind |-> "ok", msg |-> "", param |-> "", index |-> -1, cited |-> <<>>, ret |-> <<>>, warn |-> <<>>]
Err(kind, msg, param, index) == [Ok EXCEPT !.kind = kind, !.msg = msg, !.param = param, !.index = index]
Ret(v, w) == [Ok EXCEPT !.ret = v, !.warn = w]

\* ---------------------------------------------------------------- calendar

Digits == {"0", "1", "2", "3", "4", "5", "6", "7", "8", "9"}

DigitVal(c) ==
    CASE c = "0" -> 0 [] c = "1" -> 1 [] c = "2" -> 2 [] c = "3" -> 3 [] c = "4" -> 4
      [] c = "5" -> 5 [] c = "6" -> 6 [] c = "7" -> 7 [] c = "8" -> 8 [] c = "9" -> 9

RECURSIVE Num(_)
Num(s) == IF Len(s) = 0 THEN 0 ELSE 10 * Num(SubSeq(s, 1, Len(s) - 1)) + DigitVal(s[Len(s)])

IsLeap(y) == (y % 4 = 0) /\ ((y % 100 # 0) \/ (y % 400 = 0))

DaysInMonth(y, m) ==
    IF m = 2 THEN (IF IsLeap(y) THEN 29 ELSE 28)
    ELSE IF m \in {4, 6, 9, 11} THEN 30 ELSE 31

RECURSIVE DaysBeforeMonth(_, _)
DaysBeforeMonth(y, m) == IF m = 1 THEN 0 ELSE DaysBeforeMonth(y, m - 1) + DaysInMonth(y, m - 1)

toordinal(y, m, d) ==
    (y - 1) * 365 + ((y - 1) \div 4) - ((y - 1) \div 100) + ((y - 1) \div 400)
    + DaysBeforeMonth(y, m) + d

\* ---------------------------------------------------------------- datetime.strptime(s, '%Y-%m-%d')

At(s, i) == IF i >= 1 /\ i <= Len(s) THEN s[i] ELSE "$"

\* %m is  1[0-2] | 0[1-9] | [1-9], tried in that order
MonthTokLen(s, p) ==
    IF At(s, p) = "1" /\ At(s, p + 1) \in {"0", "1", "2"} /\ At(s, p + 2) = "-" THEN 2
    ELSE IF At(s, p) = "0" /\ At(s, p + 1) \in Digits \ {"0"} /\ At(s, p + 2) = "-" THEN 2
    ELSE IF At(s, p) \in Digits \ {"0"} /\ At(s, p + 1) = "-" THEN 1
    ELSE 0

\* %d is  3[0-1] | [1-2]\d | 0[1-9] | [1-9] | " "[1-9], tried in that order;
\* it ends the pattern, so the first alternative that matches is the match
DayTokLen(s, p) ==
    IF At(s, p) = "3" /\ At(s, p + 1) \in {"0", "1"} THEN 2
    ELSE IF At(s, p) \in {"1", "2"} /\ At(s, p + 1) \in Digits THEN 2
    ELSE IF At(s, p) = "0" /\ At(s, p + 1) \in Digits \ {"0"} THEN 2
    ELSE IF At(s, p) \in Digits \ {"0"} THEN 1
    ELSE IF At(s, p) = " " /\ At(s, p + 1) \in Digits \ {"0"} THEN 2
    ELSE 0

NoDate == [ok |-> FALSE, y |-> 0, m |-> 0, d |-> 0]

\* the parsed fields, or ok = FALSE where strptime raises ValueError
strptime(s) ==
    IF ~(\A i \in 1..4 : At(s, i) \in Digits) \/ At(s, 5) # "-" THEN NoDate
    ELSE LET ml == MonthTokLen(s, 6)
             dp == 6 + ml + 1
             dl == DayTokLen(s, dp)
         IN  IF ml = 0 \/ dl = 0 THEN NoDate             \* does not match format
             ELSE IF dp + dl - 1 # Len(s) THEN NoDate    \* unconverted data remains
             ELSE LET y == Num(SubSeq(s, 1, 4))
                      m == Num(SubSeq(s, 6, 5 + ml))
                      d == IF s[dp] = " " THEN DigitVal(s[dp + 1]) ELSE Num(SubSeq(s, dp, dp + dl - 1))
                  IN  IF y < 1 \/ d > DaysInMonth(y, m) THEN NoDate   \* datetime(y, m, d) raises
                      ELSE [ok |-> TRUE, y |-> y, m |-> m, d |-> d]

\* the datetime strptime returns, as an ordinal (only for strings it accepts)
strptime_dt(s) == LET p == strptime(s) IN toordinal(p.y, p.m, p.d)

\* ---------------------------------------------------------------- validator.py

IsBlank(s) == \A i \in 1..Len(s) : s[i] = " "

validate_series_id(series_id) ==
    IF series_id.t # "str" THEN Err("TypeError", "must be a string", "series_id", -1)
    ELSE IF IsBlank(series_id.v) THEN Err("ValueError", "cannot be empty", "series_id", -1)
    ELSE Ok

validate_date_format(date_str, param_name, index) ==
    IF date_str.t # "str" THEN Err("TypeError", "must be a string", param_name, index)
    ELSE IF ~strptime(date_str.v).ok THEN Err("ValueError", "must be in YYYY-MM-DD format", param_name, index)
    ELSE Ok

\* the loop of validate_dates_list from element i (1-based here, dates[i-1] in the source)
RECURSIVE validate_dates_from(_, _)
validate_dates_from(l, i) ==
    IF i > Len(l) THEN Ok
    ELSE LET r == validate_date_format(l[i], "dates", i - 1)
         IN  IF r.kind # "ok" THEN r ELSE validate_dates_from(l, i + 1)

validate_dates_list(dates) ==
    IF dates.t \notin {"str", "list"} THEN Err("TypeError", "has no len()", "dates", -1)
    ELSE IF dates.t # "list" THEN Err("TypeError", "must be a list", "dates", -1)
    ELSE IF Len(dates.v) = 0 THEN Err("ValueError", "cannot be empty", "dates", -1)
    ELSE validate_dates_from(dates.v, 1)

\* validate_date_parameters with the conflict check made after the dates list is validated
validate_date_parameters_conflict_late(dates, start_date, end_date) ==
    LET r0 == IF dates # None THEN validate_dates_list(dates) ELSE Ok
    IN  IF r0.kind # "ok" THEN r0
        ELSE IF dates # None /\ (start_date # None \/ end_date # None)
        THEN Err("ValueError", "Cannot specify both", "", -1)
        ELSE LET r2 == IF start_date # None THEN validate_date_format(start_date, "start_date", -1) ELSE Ok
                 r3 == IF end_date # None THEN validate_date_format(end_date, "end_date", -1) ELSE Ok
             IN  IF r2.kind # "ok" THEN r2
                 ELSE IF r3.kind # "ok" THEN r3
                 ELSE IF start_date # None /\ end_date # None
                         /\ strptime_dt(start_date.v) > strptime_dt(end_date.v)
                      THEN Err("ValueError", "cannot be after", "", -1)
                 ELSE Ok

\* validate_date_parameters with end_date validated before start_date
validate_date_parameters_end_first(dates, start_date, end_date) ==
    IF dates # None /\ (start_date # None \/ end_date # None)
    THEN Err("ValueError", "Cannot specify both", "", -1)
    ELSE LET r1 == IF dates # None THEN validate_dates_list(dates) ELSE Ok
             r2 == IF start_date # None THEN validate_date_format(start_date, "start_date", -1) ELSE Ok
             r3 == IF end_date # None THEN validate_date_format(end_date, "end_date", -1) ELSE Ok
         IN  IF r1.kind # "ok" THEN r1
             ELSE IF r3.kind # "ok" THEN r3
             ELSE IF r2.kind # "ok" THEN r2
             ELSE IF start_date # None /\ end_date # None
                     /\ strptime_dt(start_date.v) > strptime_dt(end_date.v)
                  THEN Err("ValueError", "cannot be after", "", -1)
             ELSE Ok

validate_date_parameters(dates, start_date, end_date) ==
    IF dates # None /\ (start_date # None \/ end_date # None)
    THEN Err("ValueError", "Cannot specify both", "", -1)
    ELSE LET r1 == IF dates # None THEN validate_dates_list(dates) ELSE Ok
             r2 == IF start_date # None THEN validate_date_format(start_date, "start_date", -1) ELSE Ok
             r3 == IF end_date # None THEN validate_date_format(end_date, "end_date", -1) ELSE Ok
         IN  IF r1.kind # "ok" THEN r1
             ELSE IF r2.kind # "ok" THEN r2
             ELSE IF r3.kind # "ok" THEN r3
             ELSE IF start_date # None /\ end_date # None
                     /\ strptime_dt(start_date.v) > strptime_dt(end_date.v)
                  THEN Err("ValueError", "cannot be after", "", -1)
             ELSE Ok

\* ---------------------------------------------------------------- processor.py

\* A series (DataFrame) is a sequence of rows [date, value]: date a Timestamp,
\* value <<x>> for the number x and <<>> for NaN.
NaN == <<>>
Row(d, v) == [date |-> d, value |-> v]

\* pd.to_datetime of an ISO date text: whether it parses, and the Timestamp
to_datetime_ok(s) == strptime(s).ok
to_datetime(s) == LET p == strptime(s) IN toordinal(p.y, p.m, p.d)

\* pd.to_numeric(errors='coerce') of a field: the number, NaN when not numeric
to_numeric(s) == IF Len(s) > 0 /\ (\A i \in 1..Len(s) : s[i] \in Digits) THEN <<Num(s)>> ELSE NaN

Map(f(_), s) == [i \in 1..Len(s) |-> f(s[i])]

\* a payload is [cols, rows]: the column count and the data rows' two fields as text
parse_row(r) == Row(to_datetime(r.date), to_numeric(r.value))

parse_fred_csv(csv) ==
    IF csv.cols # 2 THEN Err("ValueError", "Failed to parse FRED data", "", -1)
    ELSE IF \E i \in 1..Len(csv.rows) : ~to_datetime_ok(csv.rows[i].date)
         THEN Err("ValueError", "Failed to parse FRED data", "", -1)
    ELSE Ret(Map(parse_row, csv.rows), <<>>)

\* check_all_none with the test inverted (notna for isna)
check_all_none_inverted(rows) ==
    IF \A i \in 1..Len(rows) : rows[i].value # NaN
    THEN Err("ValueError", "All values from FRED API are None", "", -1)
    ELSE Ok

check_all_none(rows) ==
    IF \A i \in 1..Len(rows) : rows[i].value = NaN
    THEN Err("ValueError", "All values from FRED API are None", "", -1)
    ELSE Ok

\* result_df.merge(df, on='date', how='left'): per requested date, in order, the
\* matching rows of df in df's order, or one row with NaN when there is none
RECURSIVE merge_left(_, _)
merge_left(requested, rows) ==
    IF requested = <<>> THEN <<>>
    ELSE LET d == Head(requested)
             hits == SelectSeq(rows, LAMBDA r : r.date = d)
         IN  (IF hits = <<>> THEN <<Row(d, NaN)>> ELSE hits) \o merge_left(Tail(requested), rows)

\* Series.ffill(): carry is the last value seen that is not NaN
RECURSIVE ffill(_, _)
ffill(rows, carry) ==
    IF rows = <<>> THEN <<>>
    ELSE LET h == Head(rows)
             v == IF h.value = NaN THEN carry ELSE h.value
         IN  <<Row(h.date, v)>> \o ffill(Tail(rows), v)

\* Series.bfill()
RECURSIVE bfill(_)
bfill(rows) ==
    IF rows = <<>> THEN <<>>
    ELSE LET h == Head(rows)
             rest == bfill(Tail(rows))
             v == IF h.value # NaN THEN h.value ELSE IF rest = <<>> THEN NaN ELSE rest[1].value
         IN  <<Row(h.date, v)>> \o rest

\* the fill of filter_by_dates without the backward pass
fill_forward_only(rows) == ffill(rows, NaN)

fill(rows) == bfill(ffill(rows, NaN))

dates_of(rows) == [i \in 1..Len(rows) |-> rows[i].date]

\* filter_by_dates rejecting a requested date equal to series_start_date as well
filter_by_dates_not_after(rows, dates, series_start_date) ==
    LET requested_dates == Map(to_datetime, dates)
        dates_before_inception == SelectSeq(requested_dates, LAMBDA d : d <= series_start_date)
    IN  IF Len(dates_before_inception) > 0
        THEN [Err("ValueError", "are before series inception date", "", -1)
                EXCEPT !.cited = dates_before_inception]
        ELSE LET result_df == merge_left(requested_dates, rows)
                 missing_dates == dates_of(SelectSeq(result_df, LAMBDA r : r.value = NaN))
             IN  IF Len(missing_dates) > 0
                 THEN Ret(fill(result_df), <<missing_dates>>)
                 ELSE Ret(result_df, <<>>)

filter_by_dates(rows, dates, series_start_date) ==
    LET requested_dates == Map(to_datetime, dates)
        dates_before_inception == SelectSeq(requested_dates, LAMBDA d : d < series_start_date)
    IN  IF Len(dates_before_inception) > 0
        THEN [Err("ValueError", "are before series inception date", "", -1)
                EXCEPT !.cited = dates_before_inception]
        ELSE LET result_df == merge_left(requested_dates, rows)
                 missing_dates == dates_of(SelectSeq(result_df, LAMBDA r : r.value = NaN))
             IN  IF Len(missing_dates) > 0
                 THEN Ret(fill(result_df), <<missing_dates>>)
                 ELSE Ret(result_df, <<>>)

\* filter_by_date_range with an exclusive end bound
filter_by_date_range_end_exclusive(rows, start_date, end_date) ==
    LET df1 == IF Truthy(start_date)
               THEN SelectSeq(rows, LAMBDA r : r.date >= to_datetime(start_date.v))
               ELSE rows
        df2 == IF Truthy(end_date)
               THEN SelectSeq(df1, LAMBDA r : r.date < to_datetime(end_date.v))
               ELSE df1
    IN  Ret(df2, <<>>)

filter_by_date_range(rows, start_date, end_date) ==
    LET df1 == IF Truthy(start_date)
               THEN SelectSeq(rows, LAMBDA r : r.date >= to_datetime(start_date.v))
               ELSE rows
        df2 == IF Truthy(end_date)
               THEN SelectSeq(df1, LAMBDA r : r.date <= to_datetime(end_date.v))
               ELSE df1
    IN  Ret(df2, <<>>)

\* ---------------------------------------------------------------- fetcher.py

\* What the network gives back to requests.get: net is "ok" or the requests
\* exception raised, status the HTTP status, body what response.text is
\* ("short": empty or under 10 characters, "html": a markup page, "csv"), csv the
\* payload when it is tabular data.
NoPayload == [cols |-> 0, rows |-> <<>>]

Response(net, status, body, csv) == [net |-> net, status |-> status, body |-> body, csv |-> csv]

\* the URL requested: id always, cosd / coed only for a truthy start_date / end_date
request_url(series_id, start_date, end_date) ==
    [id |-> series_id,
     cosd |-> IF Truthy(start_date) THEN <<start_date>> ELSE <<>>,
     coed |-> IF Truthy(end_date) THEN <<end_date>> ELSE <<>>]

fetch_fred_data(series_id, start_date, end_date, response) ==
    IF response.net = "Timeout" THEN Err("ConnectionError", "Timeout connecting to FRED", "", -1)
    ELSE IF response.net = "ConnectionError" THEN Err("ConnectionError", "Failed to connect to FRED", "", -1)
    ELSE IF response.status = 404 THEN Err("ValueError", "not found on FRED", "", -1)
    ELSE IF response.status >= 400 THEN Err("ConnectionError", "Error fetching data from FRED", "", -1)
    ELSE IF response.body = "short" THEN Err("ValueError", "returned no data", "", -1)
    ELSE IF response.body = "html" THEN Err("ValueError", "not found or invalid", "", -1)
    ELSE Ret(<<response.csv>>, <<>>)

\* ---------------------------------------------------------------- api.py

DataFrame(rows) == [t |-> "df", v |-> rows]

\* df['date'].min(); no Timestamp is below the NaT of an empty column, as none is below 0
series_min(rows) ==
    IF rows = <<>> THEN 0
    ELSE LET ds == {rows[i].date : i \in 1..Len(rows)}
         IN  CHOOSE d \in ds : \A e \in ds : d <= e

\* the branch of step 5 taken, asking for both bounds before a range filter is applied
select_filter_both_bounds(dates, start_date, end_date) ==
    IF dates # None THEN "filter_by_dates"
    ELSE IF start_date # None /\ end_date # None THEN "filter_by_date_range"
    ELSE "none"

\* the branch of step 5 taken
select_filter(dates, start_date, end_date) ==
    IF dates # None THEN "filter_by_dates"
    ELSE IF start_date # None \/ end_date # None THEN "filter_by_date_range"
    ELSE "none"

\* ---------------------------------------------------------------- inputs

Y2020 == <<"2", "0", "2", "0">>
Y2021 == <<"2", "0", "2", "1">>

YearTexts == {Y2020, Y2021, <<"2", "1">>}
MonthTexts == {<<"0", "1">>, <<"0", "2">>, <<"1", "2">>, <<"1", "3">>, <<"1">>, <<"2">>}
DayTexts == {<<"0", "1">>, <<"2", "9">>, <<"3", "0">>, <<"3", "1">>, <<"1">>, <<" ", "1">>, <<"3", "1", "1">>}
Seps == {"-", "/"}

DateText(y, s1, m, s2, d) == y \o <<s1>> \o m \o <<s2>> \o d

FormatTexts ==
    {DateText(y, s1, m, s2, d) : y \in YearTexts, s1 \in Seps, m \in MonthTexts, s2 \in Seps, d \in DayTexts}
    \cup {<<>>}

Jan01 == DateText(Y2020, "-", <<"0", "1">>, "-", <<"0", "1">>)    \* "2020-01-01"
Feb29 == DateText(Y2020, "-", <<"0", "2">>, "-", <<"2", "9">>)    \* "2020-02-29"
Dec31 == DateText(Y2020, "-", <<"1", "2">>, "-", <<"3", "1">>)    \* "2020-12-31"
Jan1Short == DateText(Y2020, "-", <<"1">>, "-", <<"1">>)          \* "2020-1-1"
Slashed == DateText(Y2020, "/", <<"0", "1">>, "/", <<"0", "1">>)  \* "2020/01/01"
Feb30 == DateText(Y2020, "-", <<"0", "2">>, "-", <<"3", "0">>)    \* "2020-02-30"

\* values passed as series_id
SeriesIdArgs == {Str(<<"D", "T", "B", "3">>), Str(<<>>), Str(<<" ", " ">>), PyInt, None}

\* values passed as start_date / end_date
BoundArgs == {None, PyInt, Str(Jan01), Str(Feb29), Str(Dec31), Str(Slashed), Str(<<>>)}

\* values passed as elements of dates
ElemArgs == {Str(Jan01), Str(Dec31), Str(Feb30), PyInt}

SeqsUpTo(S, n) == UNION {[1..k -> S] : k \in 0..n}

\* values passed as dates
DatesArgs == {None, PyInt, Str(Jan01)} \cup {List(l) : l \in SeqsUpTo(ElemArgs, MaxDates)}

\* a text pd.to_datetime cannot read as a date
NotADate == <<"x">>

\* the value fields of a payload: two numbers and FRED's placeholder for a missing value
ValueTexts == {<<"1">>, <<"2">>, <<".">>}

\* payload rows with a date the series holds
GoodCsvRows == [date : {Feb29, Dec31}, value : ValueTexts]

\* tabular payloads whose dates all parse
GoodPayloads == {[cols |-> 2, rows |-> r] : r \in SeqsUpTo(GoodCsvRows, MaxRows)}

\* payloads given to parse_fred_csv
Payloads ==
    GoodPayloads
    \cup {[cols |-> 2, rows |-> <<[date |-> NotADate, value |-> <<"1">>]>>],
          [cols |-> 2, rows |-> <<[date |-> Feb29, value |-> <<"1">>], [date |-> NotADate, value |-> <<"2">>]>>],
          [cols |-> 1, rows |-> <<>>], [cols |-> 3, rows |-> <<>>]}

\* what the network may answer
Responses ==
    {Response("ok", 200, "csv", c) : c \in Payloads}
    \cup {Response("Timeout", 0, "short", NoPayload), Response("ConnectionError", 0, "short", NoPayload),
          Response("ok", 404, "html", NoPayload), Response("ok", 500, "html", NoPayload),
          Response("ok", 200, "short", NoPayload), Response("ok", 200, "html", NoPayload)}

\* parsed series given to the filters
Frames == {Map(parse_row, c.rows) : c \in GoodPayloads}

\* requested dates given to filter_by_dates: before, at and after the first date a series may hold
RequestTexts == {Jan01, Feb29, Dec31}
RequestLists == SeqsUpTo(RequestTexts, MaxDates)

\* range bounds given to filter_by_date_range
RangeArgs == {None, Str(<<>>), Str(Jan01), Str(Feb29), Str(Dec31)}

\* the arguments of get_series
ReqSeriesIds == {Str(<<"D", "T", "B", "3">>), Str(<<>>), PyInt}
ReqDates == {None, PyInt, List(<<Str(Feb30)>>)} \cup {List(Map(Str, l)) : l \in RequestLists}
ReqBounds == {None, Str(Feb29), Str(Dec31), Str(Slashed)}

\* ---------------------------------------------------------------- direct calls

NoCall == [fn |-> "none", arg |-> None, dates |-> None, start_date |-> None, end_date |-> None,
           rows |-> <<>>, series_start_date |-> 0, csv |-> NoPayload]

CallValidateSeriesId ==
    /\ call = NoCall
    /\ \E v \in SeriesIdArgs :
        /\ call' = [NoCall EXCEPT !.fn = "validate_series_id", !.arg = v]
        /\ outcome' = validate_series_id(v)
    /\ UNCHANGED <<pc, req, csv_data, df, result, error, stages, fetched, filtered, warned>>

CallValidateDateFormat ==
    /\ call = NoCall
    /\ \E v \in {Str(s) : s \in FormatTexts} \cup {PyInt, None} :
        /\ call' = [NoCall EXCEPT !.fn = "validate_date_format", !.arg = v]
        /\ outcome' = validate_date_format(v, "test_date", -1)
    /\ UNCHANGED <<pc, req, csv_data, df, result, error, stages, fetched, filtered, warned>>

CallValidateDatesList ==
    /\ call = NoCall
    /\ \E d \in DatesArgs :
        /\ call' = [NoCall EXCEPT !.fn = "validate_dates_list", !.dates = d]
        /\ outcome' = validate_dates_list(d)
    /\ UNCHANGED <<pc, req, csv_data, df, result, error, stages, fetched, filtered, warned>>

CallValidateDateParameters ==
    /\ call = NoCall
    /\ \E d \in DatesArgs, s \in BoundArgs, e \in BoundArgs :
        /\ call' = [NoCall EXCEPT !.fn = "validate_date_parameters", !.dates = d, !.start_date = s, !.end_date = e]
        /\ outcome' = validate_date_parameters(d, s, e)
    /\ UNCHANGED <<pc, req, csv_data, df, result, error, stages, fetched, filtered, warned>>

CallParseFredCsv ==
    /\ call = NoCall
    /\ \E c \in Payloads :
        /\ call' = [NoCall EXCEPT !.fn = "parse_fred_csv", !.csv = c]
        /\ outcome' = parse_fred_csv(c)
    /\ UNCHANGED <<pc, req, csv_data, df, result, error, stages, fetched, filtered, warned>>

CallCheckAllNone ==
    /\ call = NoCall
    /\ \E rows \in Frames :
        /\ call' = [NoCall EXCEPT !.fn = "check_all_none", !.rows = rows]
        /\ outcome' = check_all_none(rows)
    /\ UNCHANGED <<pc, req, csv_data, df, result, error, stages, fetched, filtered, warned>>

CallFilterByDates ==
    /\ call = NoCall
    /\ \E rows \in Frames, dates \in RequestLists, start \in {to_datetime(Jan01), to_datetime(Feb29)} :
        /\ call' = [NoCall EXCEPT !.fn = "filter_by_dates", !.rows = rows, !.dates = List(Map(Str, dates)),
                                  !.series_start_date = start]
        /\ outcome' = filter_by_dates(rows, dates, start)
    /\ UNCHANGED <<pc, req, csv_data, df, result, error, stages, fetched, filtered, warned>>

CallFilterByDateRange ==
    /\ call = NoCall
    /\ \E rows \in Frames, s \in RangeArgs, e \in RangeArgs :
        /\ call' = [NoCall EXCEPT !.fn = "filter_by_date_range", !.rows = rows, !.start_date = s, !.end_date = e]
        /\ outcome' = filter_by_date_range(rows, s, e)
    /\ UNCHANGED <<pc, req, csv_data, df, result, error, stages, fetched, filtered, warned>>

\* ---------------------------------------------------------------- FredAPI.get_series

NoRequest == [series_id |-> None, dates |-> None, start_date |-> None, end_date |-> None]

GoTo(stage) == pc' = stage /\ stages' = Append(stages, stage)

Fail(e) == GoTo("Failed") /\ error' = e

\* the call: api.get_series(series_id, dates, start_date, end_date)
GetSeries ==
    /\ pc = "Idle"
    /\ call = NoCall
    /\ \E series_id \in ReqSeriesIds, dates \in ReqDates, start_date \in ReqBounds, end_date \in ReqBounds :
        req' = [series_id |-> series_id, dates |-> dates, start_date |-> start_date, end_date |-> end_date]
    /\ GoTo("Validating")
    /\ UNCHANGED <<call, outcome, csv_data, df, result, error, fetched, filtered, warned>>

\* Step 1: validate inputs
Validate ==
    /\ pc = "Validating"
    /\ LET r1 == validate_series_id(req.series_id)
           r2 == validate_date_parameters(req.dates, req.start_date, req.end_date)
       IN  IF r1.kind # "ok" THEN Fail(r1)
           ELSE IF r2.kind # "ok" THEN Fail(r2)
           ELSE GoTo("Fetching") /\ UNCHANGED error
    /\ UNCHANGED <<call, outcome, req, csv_data, df, result, fetched, filtered, warned>>

\* step 2 calling fetch_fred_data(series_id) whatever the selector
fetch_args_no_bounds(r) ==
    [series_id |-> r.series_id, start_date |-> None, end_date |-> None]

\* the arguments step 2 gives fetch_fred_data
fetch_args(r) ==
    IF r.dates = None
    THEN [series_id |-> r.series_id, start_date |-> r.start_date, end_date |-> r.end_date]
    ELSE [series_id |-> r.series_id, start_date |-> None, end_date |-> None]

\* a call of fetch_fred_data as recorded: its arguments and the URL it requests
fetch_call(a) ==
    [series_id |-> a.series_id, start_date |-> a.start_date, end_date |-> a.end_date,
     url |-> request_url(a.series_id, a.start_date, a.end_date)]

\* Step 2 retrying the fetch after a connection error
FetchWithRetry ==
    /\ pc = "Fetching"
    /\ \E response \in Responses :
        LET a == fetch_args(req)
            r == fetch_fred_data(a.series_id, a.start_date, a.end_date, response)
        IN  /\ fetched' = Append(fetched, fetch_call(a))
            /\ IF r.kind = "ConnectionError" /\ Len(fetched) < 1
               THEN UNCHANGED <<pc, stages, error, csv_data>>
               ELSE IF r.kind # "ok" THEN Fail(r) /\ UNCHANGED csv_data
               ELSE GoTo("Parsing") /\ csv_data' = r.ret /\ UNCHANGED error
    /\ UNCHANGED <<call, outcome, req, df, result, filtered, warned>>

\* Step 2: fetch data from FRED
Fetch ==
    /\ pc = "Fetching"
    /\ \E response \in Responses :
        LET a == fetch_args(req)
            r == fetch_fred_data(a.series_id, a.start_date, a.end_date, response)
        IN  /\ fetched' = Append(fetched, fetch_call(a))
            /\ IF r.kind # "ok" THEN Fail(r) /\ UNCHANGED csv_data
               ELSE GoTo("Parsing") /\ csv_data' = r.ret /\ UNCHANGED error
    /\ UNCHANGED <<call, outcome, req, df, result, filtered, warned>>

\* Step 3: parse CSV data
Parse ==
    /\ pc = "Parsing"
    /\ LET r == parse_fred_csv(csv_data[1])
       IN  IF r.kind # "ok" THEN Fail(r) /\ UNCHANGED df
           ELSE GoTo("CheckingMissing") /\ df' = DataFrame(r.ret) /\ UNCHANGED error
    /\ UNCHANGED <<call, outcome, req, csv_data, result, fetched, filtered, warned>>

\* Step 4: check for all None values; with no selector step 5 is skipped and df returned
CheckMissing ==
    /\ pc = "CheckingMissing"
    /\ LET r == check_all_none(df.v)
       IN  IF r.kind # "ok" THEN Fail(r) /\ UNCHANGED result
           ELSE IF select_filter(req.dates, req.start_date, req.end_date) = "none"
                THEN GoTo("Done") /\ result' = df /\ UNCHANGED error
                ELSE GoTo("Filtering") /\ UNCHANGED <<result, error>>
    /\ UNCHANGED <<call, outcome, req, csv_data, df, fetched, filtered, warned>>

\* Step 5: filter by dates or by range, and return
Filter ==
    /\ pc = "Filtering"
    /\ LET fn == select_filter(req.dates, req.start_date, req.end_date)
           start == series_min(df.v)
           r == IF fn = "filter_by_dates"
                THEN filter_by_dates(df.v, Map(LAMBDA x : x.v, req.dates.v), start)
                ELSE filter_by_date_range(df.v, req.start_date, req.end_date)
       IN  /\ filtered' = Append(filtered,
                 [fn |-> fn, rows |-> df.v, dates |-> req.dates,
                  series_start_date |-> IF fn = "filter_by_dates" THEN start ELSE 0,
                  start_date |-> req.start_date, end_date |-> req.end_date])
           /\ warned' = warned \o r.warn
           /\ IF r.kind # "ok" THEN Fail(r) /\ UNCHANGED result
              ELSE GoTo("Done") /\ result' = DataFrame(r.ret) /\ UNCHANGED error
    /\ UNCHANGED <<call, outcome, req, csv_data, df, fetched>>

Init ==
    /\ call = NoCall
    /\ outcome = Ok
    /\ pc = "Idle"
    /\ req = NoRequest
    /\ csv_data = <<>>
    /\ df = None
    /\ result = None
    /\ error = Ok
    /\ stages = <<>>
    /\ fetched = <<>>
    /\ filtered = <<>>
    /\ warned = <<>>

\* the validator's functions called directly
ValidatorNext ==
    \/ CallValidateSeriesId
    \/ CallValidateDateFormat
    \/ CallValidateDatesList
    \/ CallValidateDateParameters

ValidatorSpec == Init /\ [][ValidatorNext]_vars

\* the processor's functions called directly
ProcessorNext ==
    \/ CallParseFredCsv
    \/ CallCheckAllNone
    \/ CallFilterByDates
    \/ CallFilterByDateRange

ProcessorSpec == Init /\ [][ProcessorNext]_vars

\* one get_series request on a fresh FredAPI
Next ==
    \/ GetSeries
    \/ Validate
    \/ Fetch
    \/ Parse
    \/ CheckMissing
    \/ Filter

Spec == Init /\ [][Next]_vars

\* ---------------------------------------------------------------- validator claims

IsParamsCall == call.fn = "validate_date_parameters"

Conflict(c) == c.dates # None /\ (c.start_date # None \/ c.end_date # None)

\* C1: every call of validate_date_parameters with dates non-null and at least one
\* of start_date, end_date non-null raises ValueError 'Cannot specify both',
\* whatever the three values hold, and raises nothing else.
C1_ConflictAlwaysRejected ==
    (IsParamsCall /\ Conflict(call)) =>
        (outcome.kind = "ValueError" /\ outcome.msg = "Cannot specify both")

\* an empty dates list together with a wrongly typed bound was rejected as a conflict
C1_Witness ==
    /\ IsParamsCall
    /\ call.dates = List(<<>>)
    /\ call.start_date = PyInt
    /\ call.end_date = Str(Slashed)
    /\ outcome.msg = "Cannot specify both"

\* a valid calendar date written exactly YYYY-MM-DD
IsCalendarDateText(s) ==
    /\ Len(s) = 10
    /\ \A i \in {1, 2, 3, 4, 6, 7, 9, 10} : s[i] \in Digits
    /\ s[5] = "-" /\ s[8] = "-"
    /\ LET y == Num(SubSeq(s, 1, 4))
           m == Num(SubSeq(s, 6, 7))
           d == Num(SubSeq(s, 9, 10))
       IN  y >= 1 /\ m \in 1..12 /\ d \in 1..DaysInMonth(y, m)

\* C2: validate_date_format(s, label) succeeds exactly for the strings s that are a
\* valid calendar date written exactly YYYY-MM-DD, and raises ValueError for every
\* other string.
C2_StrictFormat ==
    (call.fn = "validate_date_format" /\ call.arg.t = "str") =>
        /\ (outcome.kind = "ok") <=> IsCalendarDateText(call.arg.v)
        /\ (outcome.kind # "ok") => outcome.kind = "ValueError"

FormatFails(v) == validate_date_format(v, "", -1).kind # "ok"

BadIndexes(l) == {i \in 1..Len(l) : FormatFails(l[i])}

Lowest(S) == CHOOSE i \in S : \A j \in S : i <= j

\* the error the ordered checks (1)..(5) report for a call, Ok when none fails
FirstFailingCheck(c) ==
    IF Conflict(c) THEN Err("ValueError", "Cannot specify both", "", -1)
    ELSE IF c.dates # None /\ c.dates.t # "list" THEN Err("TypeError", "", "dates", -1)
    ELSE IF c.dates # None /\ Len(c.dates.v) = 0 THEN Err("ValueError", "cannot be empty", "dates", -1)
    ELSE IF c.dates # None /\ BadIndexes(c.dates.v) # {}
         THEN LET i == Lowest(BadIndexes(c.dates.v))
              IN  Err(IF c.dates.v[i].t # "str" THEN "TypeError" ELSE "ValueError", "", "dates", i - 1)
    ELSE IF c.start_date # None /\ FormatFails(c.start_date)
         THEN Err(IF c.start_date.t # "str" THEN "TypeError" ELSE "ValueError", "", "start_date", -1)
    ELSE IF c.end_date # None /\ FormatFails(c.end_date)
         THEN Err(IF c.end_date.t # "str" THEN "TypeError" ELSE "ValueError", "", "end_date", -1)
    ELSE IF c.start_date # None /\ c.end_date # None
            /\ strptime_dt(c.start_date.v) > strptime_dt(c.end_date.v)
         THEN Err("ValueError", "cannot be after", "", -1)
    ELSE Ok

\* C10: validate_date_parameters reports the error of the first failing check in the
\* order (1) dates with a bound, (2) the dates list (not a list, empty, then the
\* lowest-index invalid element with its dates[i] label), (3) start_date format,
\* (4) end_date format, (5) start after end; it succeeds exactly when no check
\* fails, so equal bounds, a single bound and no selector are accepted.
C10_FirstFailingCheckReported ==
    IsParamsCall =>
        LET want == FirstFailingCheck(call)
        IN  /\ outcome.kind = want.kind
            /\ outcome.param = want.param
            /\ outcome.index = want.index
            /\ (want.msg # "") => outcome.msg = want.msg
            /\ (call.start_date = call.end_date /\ call.start_date = Str(Jan01) /\ call.dates = None)
                    => outcome = Ok
            /\ (call.dates = None /\ call.start_date = None /\ call.end_date \in {None, Str(Dec31)})
                    => outcome = Ok

\* both bounds were malformed, of different kinds, and the start_date error was reported
C10_Witness ==
    /\ IsParamsCall
    /\ call.dates = None
    /\ call.start_date = Str(Slashed)
    /\ call.end_date = PyInt
    /\ outcome.kind = "ValueError"
    /\ outcome.param = "start_date"

\* ---------------------------------------------------------------- processor claims

IsDatesCall == call.fn = "filter_by_dates"

\* the Timestamps a filter_by_dates call requested, in the order requested
Requested == [i \in 1..Len(call.dates.v) |-> to_datetime(call.dates.v[i].v)]

\* C3: for every source series and every non-empty list of requested dates none of
\* which precedes the series start, filter_by_dates returns exactly one row per
\* requested date, in the order requested, duplicates in the request kept.
C3_OneRowPerRequestedDate ==
    (IsDatesCall /\ Len(Requested) > 0 /\ (\A i \in 1..Len(Requested) : Requested[i] >= call.series_start_date)) =>
        /\ outcome.kind = "ok"
        /\ Len(outcome.ret) = Len(Requested)
        /\ \A i \in 1..Len(Requested) : outcome.ret[i].date = Requested[i]

Offending == {i \in 1..Len(Requested) : Requested[i] < call.series_start_date}

\* C4: filter_by_dates raises ValueError exactly when a requested date is strictly
\* earlier than series_start_date; the error lists exactly the offending requested
\* dates, a date equal to series_start_date is accepted, and a failing call returns
\* no result and emits no warning.
C4_RejectsDatesBeforeInception ==
    IsDatesCall =>
        /\ outcome.kind \in {"ok", "ValueError"}
        /\ (outcome.kind = "ValueError") <=> (Offending # {})
        /\ (outcome.kind = "ValueError") =>
              /\ Len(outcome.cited) = Cardinality(Offending)
              /\ {outcome.cited[k] : k \in 1..Len(outcome.cited)} = {Requested[i] : i \in Offending}
              /\ outcome.ret = <<>>
              /\ outcome.warn = <<>>

\* a request with one date before, one at and one after the series start was
\* rejected citing the first alone
C4_Witness ==
    /\ IsDatesCall
    /\ call.dates = List(<<Str(Dec31), Str(Jan01), Str(Feb29)>>)
    /\ call.series_start_date = to_datetime(Feb29)
    /\ outcome.kind = "ValueError"
    /\ outcome.cited = <<to_datetime(Jan01)>>

IsRangeCall == call.fn = "filter_by_date_range"

\* a bound is absent or a calendar date
IsBound(b) == b = None \/ (b.t = "str" /\ to_datetime_ok(b.v))

InRange(d, start_date, end_date) ==
    /\ (start_date # None) => d >= to_datetime(start_date.v)
    /\ (end_date # None) => d <= to_datetime(end_date.v)

\* the k-th smallest member of a set of indexes
Nth(S, k) == CHOOSE i \in S : Cardinality({j \in S : j <= i}) = k

\* rows holds exactly the rows of src whose date is within the bounds, in src's order
IsRangeOf(rows, src, start_date, end_date) ==
    LET keep == {i \in 1..Len(src) : InRange(src[i].date, start_date, end_date)}
    IN  /\ Len(rows) = Cardinality(keep)
        /\ \A k \in 1..Len(rows) : rows[k] = src[Nth(keep, k)]

\* C6: filter_by_date_range returns exactly the observations with date >= start (when
\* start is given) and date <= end (when end is given), bounds inclusive, in the
\* input's order, values unchanged and nothing added; with no bound the input itself.
C6_RangeFilterExact ==
    (IsRangeCall /\ IsBound(call.start_date) /\ IsBound(call.end_date)) =>
        /\ outcome.kind = "ok"
        /\ IsRangeOf(outcome.ret, call.rows, call.start_date, call.end_date)
        /\ (call.start_date = None /\ call.end_date = None) => outcome.ret = call.rows
        /\ outcome.warn = <<>>

\* a range of one day kept the observation of that day, its missing value left missing
C6_Witness ==
    /\ IsRangeCall
    /\ call.start_date = Str(Feb29)
    /\ call.end_date = Str(Feb29)
    /\ call.rows = <<Row(to_datetime(Dec31), <<1>>), Row(to_datetime(Feb29), NaN)>>
    /\ outcome.ret = <<Row(to_datetime(Feb29), NaN)>>

Available(rows) == {j \in 1..Len(rows) : rows[j].value # NaN}

\* the value row i of the join ends with: its own, else that of the nearest
\* preceding row that has one, else that of the nearest following row that has one
Filled(joined, i) ==
    LET before == {j \in Available(joined) : j < i}
        after == {j \in Available(joined) : j > i}
    IN  IF i \in Available(joined) THEN joined[i].value
        ELSE IF before # {} THEN joined[CHOOSE j \in before : \A k \in before : k <= j].value
        ELSE IF after # {} THEN joined[CHOOSE j \in after : \A k \in after : j <= k].value
        ELSE NaN

\* C7: in the result of filter_by_dates a row without a value after the exact-date
\* join gets the value of the nearest preceding row, in requested order, that has
\* one, else of the nearest following row that has one; rows with a value keep it.
C7_GapsFilledForwardThenBackward ==
    (IsDatesCall /\ outcome.kind = "ok") =>
        LET joined == merge_left(Requested, call.rows)
        IN  /\ Len(outcome.ret) = Len(joined)
            /\ \A i \in 1..Len(joined) :
                /\ outcome.ret[i].date = joined[i].date
                /\ outcome.ret[i].value = Filled(joined, i)

\* a date absent from the series was requested before and after one present: the
\* first took the following value, the last the preceding one
C7_Witness ==
    /\ IsDatesCall
    /\ call.dates = List(<<Str(Jan01), Str(Dec31), Str(Jan01)>>)
    /\ call.rows = <<Row(to_datetime(Feb29), <<1>>), Row(to_datetime(Dec31), <<2>>)>>
    /\ outcome.kind = "ok"
    /\ outcome.ret = <<Row(to_datetime(Jan01), <<2>>), Row(to_datetime(Dec31), <<2>>), Row(to_datetime(Jan01), <<2>>)>>
    /\ outcome.warn # <<>>

\* ---------------------------------------------------------------- get_series claims

AllMissing(rows) == \A i \in 1..Len(rows) : rows[i].value = NaN

\* C5: when the payload parses to a series whose values are all missing, get_series
\* raises ValueError and neither filter is invoked, whatever the selector: the
\* check runs after parsing and before any filtering.
C5_AllMissingFailsBeforeFiltering ==
    (df # None /\ AllMissing(df.v)) =>
        /\ filtered = <<>>
        /\ warned = <<>>
        /\ result = None
        /\ pc \in {"CheckingMissing", "Failed"}
        /\ (pc = "Failed") => (error.kind = "ValueError" /\ error.msg = "All values from FRED API are None")

\* a request for explicit dates failed on a series of missing values only
C5_Witness ==
    /\ pc = "Failed"
    /\ req.dates # None
    /\ df # None
    /\ Len(df.v) = 2
    /\ AllMissing(df.v)
    /\ error.msg = "All values from FRED API are None"

IsPrefix(s, t) == Len(s) <= Len(t) /\ s = SubSeq(t, 1, Len(s))

WithFilter == <<"Validating", "Fetching", "Parsing", "CheckingMissing", "Filtering", "Done">>
WithoutFilter == <<"Validating", "Fetching", "Parsing", "CheckingMissing", "Done">>

Terminal == {"Done", "Failed"}

\* the stage that failed: the one the request was in when it moved to Failed
FailedIn == stages[Len(stages) - 1]

\* the errors the failed stage can raise, given what the request held then
StageErrors ==
    IF FailedIn = "Validating"
    THEN {validate_series_id(req.series_id), validate_date_parameters(req.dates, req.start_date, req.end_date)}
    ELSE IF FailedIn = "Fetching"
    THEN {fetch_fred_data(req.series_id, None, None, r) : r \in Responses}
    ELSE IF FailedIn = "Parsing" THEN {parse_fred_csv(csv_data[1])}
    ELSE IF FailedIn = "CheckingMissing" THEN {check_all_none(df.v)}
    ELSE {filter_by_dates(df.v, Map(LAMBDA x : x.v, req.dates.v), series_min(df.v))}

\* C8: a request runs Validating, Fetching, Parsing, CheckingMissing, optionally
\* Filtering, then Done; a failing stage moves it to Failed, after which nothing
\* runs and nothing is re-run (the fetcher is invoked at most once, never after a
\* validation failure), the stage's error reaches the caller unchanged and no
\* series is returned; a request ends in exactly one of Done and Failed.
C8_StagesInOrderFailuresTerminal ==
    (pc # "Idle") =>
        /\ pc = stages[Len(stages)]
        /\ IF pc = "Failed"
           THEN /\ Len(stages) >= 2
                /\ IsPrefix(SubSeq(stages, 1, Len(stages) - 1), WithFilter)
                /\ FailedIn # "Done"
                /\ error.kind # "ok"
                /\ error \in StageErrors
                /\ result = None
           ELSE /\ IsPrefix(stages, WithFilter) \/ IsPrefix(stages, WithoutFilter)
                /\ error = Ok
                /\ (result # None) <=> (pc = "Done")
        /\ Len(fetched) = (IF \E i \in 1..Len(stages) : stages[i] = "Parsing" THEN 1
                           ELSE IF pc = "Failed" /\ FailedIn = "Fetching" THEN 1 ELSE 0)
        /\ Len(filtered) <= 1
        /\ (pc \in Terminal) => (error.kind = "ok") # (result = None)

\* the fetch failed on the connection: the request is Failed with that error, the
\* fetcher called once
C8_Witness ==
    /\ pc = "Failed"
    /\ stages = <<"Validating", "Fetching", "Failed">>
    /\ error.kind = "ConnectionError"
    /\ Len(fetched) = 1
    /\ result = None

PastMissingCheck == Len(stages) >= 5 /\ stages[5] # "Failed"

\* C9: after a successful missing-check the filter is chosen by the selector alone:
\* dates non-null gives filter_by_dates with series_start_date the minimum date of
\* the parsed series; else a non-null start_date or end_date gives
\* filter_by_date_range with those bounds, which never fails; else no filter, the
\* parsed series being returned unchanged. One branch is taken per request.
C9_FilterChosenBySelector ==
    (PastMissingCheck /\ pc # "Filtering") =>
        IF req.dates # None
        THEN /\ stages[5] = "Filtering"
             /\ Len(filtered) = 1
             /\ filtered[1].fn = "filter_by_dates"
             /\ filtered[1].rows = df.v
             /\ filtered[1].dates = req.dates
             /\ \A i \in 1..Len(df.v) : filtered[1].series_start_date <= df.v[i].date
             /\ \E i \in 1..Len(df.v) : filtered[1].series_start_date = df.v[i].date
             /\ (pc = "Done") => \A i \in 1..Len(result.v) :
                    \E j \in 1..Len(req.dates.v) : result.v[i].date = to_datetime(req.dates.v[j].v)
        ELSE IF req.start_date # None \/ req.end_date # None
        THEN /\ stages[5] = "Filtering"
             /\ pc = "Done"
             /\ Len(filtered) = 1
             /\ filtered[1].fn = "filter_by_date_range"
             /\ filtered[1].rows = df.v
             /\ filtered[1].start_date = req.start_date
             /\ filtered[1].end_date = req.end_date
             /\ IsRangeOf(result.v, df.v, req.start_date, req.end_date)
        ELSE /\ stages[5] = "Done"
             /\ filtered = <<>>
             /\ result = df

\* a request with a start_date alone returned the range-filtered series
C9_Witness ==
    /\ pc = "Done"
    /\ req.dates = None
    /\ req.start_date = Str(Dec31)
    /\ req.end_date = None
    /\ Len(filtered) = 1
    /\ Len(df.v) = 2
    /\ Len(result.v) = 1

ReachedFetching == \E i \in 1..Len(stages) : stages[i] = "Fetching"

\* C11: a request that reaches Fetching calls the fetcher exactly once (not before the
\* stage runs, once from then on), with the caller's series identifier; with dates
\* non-null the call has no start and no end bound and the URL no cosd / coed, the
\* series_start_date given to filter_by_dates being the minimum date of the series
\* parsed from that payload; with dates null the call has exactly the caller's
\* start_date and end_date, each in the URL when present. A request that does not
\* reach Fetching never calls the fetcher.
C11_FetchOnceWithSelectorBounds ==
    IF ~ReachedFetching \/ pc = "Fetching" THEN fetched = <<>>
    ELSE /\ Len(fetched) = 1
         /\ fetched[1].series_id = req.series_id
         /\ fetched[1].url.id = req.series_id
         /\ IF req.dates # None
            THEN /\ fetched[1].start_date = None
                 /\ fetched[1].end_date = None
                 /\ fetched[1].url.cosd = <<>>
                 /\ fetched[1].url.coed = <<>>
                 /\ \A k \in 1..Len(filtered) :
                       /\ filtered[k].fn = "filter_by_dates"
                       /\ filtered[k].series_start_date = series_min(parse_fred_csv(csv_data[1]).ret)
            ELSE /\ fetched[1].start_date = req.start_date
                 /\ fetched[1].end_date = req.end_date
                 /\ fetched[1].url.cosd = (IF req.start_date = None THEN <<>> ELSE <<req.start_date>>)
                 /\ fetched[1].url.coed = (IF req.end_date = None THEN <<>> ELSE <<req.end_date>>)

\* a request with an end_date alone was fetched with that bound alone and completed
C11_Witness ==
    /\ pc = "Done"
    /\ req.dates = None
    /\ req.start_date = None
    /\ req.end_date = Str(Feb29)
    /\ Len(fetched) = 1
    /\ fetched[1].start_date = None
    /\ fetched[1].end_date = Str(Feb29)
    /\ fetched[1].url.coed = <<Str(Feb29)>>

\* a request for explicit dates was fetched without bounds and filtered
C11_WitnessDates ==
    /\ pc = "Done"
    /\ req.dates # None
    /\ Len(fetched) = 1
    /\ fetched[1].url.cosd = <<>>
    /\ Len(filtered) = 1
    /\ Len(df.v) = 2

====
